---- MODULE Spec2Model ----
(***************************************************************************)
(* A model of backend/main.py, the FastAPI service that loads four CSV     *)
(* tables at startup (load_csv_data) and answers read-only requests from   *)
(* them.  Python strings are sequences of one-character strings, so that   *)
(* str.upper, str.contains (a regular-expression search), int() and str()  *)
(* are computed and not assumed.  A DataFrame is a record of its column    *)
(* names and its rows in storage order; a row is a record of its cells.    *)
(* Of a row's cells the model keeps the keys, the searched text columns    *)
(* and the close price; the cells a handler only copies into its answer    *)
(* (description, value, year, open, high, low, volume, ...) are left out.  *)
(* A timestamp is a number: the files hold dates in a fixed-width format,  *)
(* which sort_values orders as strings in date order.                      *)
(***************************************************************************)
EXTENDS Integers, Sequences, FiniteSets, TLC

VARIABLES
    fs,             \* the working directory: the four CSV files
    imf_data,       \* main.py:67
    wb_data,        \* main.py:68
    market_data,    \* main.py:69
    company_info,   \* main.py:70
    phase,          \* "startup" before startup_event has run, then "serving"
    resp            \* the last request served and its response

vars == <<fs, imf_data, wb_data, market_data, company_info, phase, resp>>

tables == <<imf_data, wb_data, market_data, company_info>>

-----------------------------------------------------------------------------
(* Bounds of the model.                                                    *)

MaxIndicators == 11    \* rows of the larger indicator files
MaxCompanies == 6      \* rows of the larger company file
MaxTickers == 6        \* distinct tickers of the wide market file
MaxSeries == 8         \* rows per ticker of the long market file
MaxLimit == 3          \* limits -MaxLimit..MaxLimit are requested
ExtraRows == 1         \* rows per ticker beyond a lookback in the chart files

(* Program constants.                                                      *)

IndicatorHead == 10    \* .head(10)
IndicatorCap == 20     \* results[:20]
SearchHead == 5        \* [:5], .head(5)
Tail1W == 7
Tail1M == 30
Tail3M == 90
Tail1Y == 365

-----------------------------------------------------------------------------
(* Python values.                                                          *)

Min(a, b) == IF a <= b THEN a ELSE b
Max(a, b) == IF a >= b THEN a ELSE b

\* The letters of the model's strings, lower case and upper case.
Lowers == <<"a", "b", "c", "f", "i", "k", "n", "p", "r", "s", "u", "x", "z">>
Uppers == <<"A", "B", "C", "F", "I", "K", "N", "P", "R", "S", "U", "X", "Z">>

Lower(c) ==
    IF \E k \in 1..Len(Uppers) : Uppers[k] = c
    THEN Lowers[CHOOSE k \in 1..Len(Uppers) : Uppers[k] = c]
    ELSE c

Upper(c) ==
    IF \E k \in 1..Len(Lowers) : Lowers[k] = c
    THEN Uppers[CHOOSE k \in 1..Len(Lowers) : Lowers[k] = c]
    ELSE c

\* str.upper()
upper(s) == SubSeq([i \in 1..Len(s) |-> Upper(s[i])], 1, Len(s))

DigitChars == <<"0", "1", "2", "3", "4", "5", "6", "7", "8", "9">>

IsDigit(c) == \E d \in 1..10 : DigitChars[d] = c

DigitValue(c) == (CHOOSE d \in 1..10 : DigitChars[d] = c) - 1

\* int(s) of a string of the model's alphabet: decimal digits, or ValueError.
int_ok(s) == Len(s) > 0 /\ \A i \in 1..Len(s) : IsDigit(s[i])

RECURSIVE int(_)
int(s) ==
    IF Len(s) = 0 THEN 0
    ELSE 10 * int(SubSeq(s, 1, Len(s) - 1)) + DigitValue(s[Len(s)])

\* str(n) of a natural number.
RECURSIVE str(_)
str(n) ==
    IF n < 10 THEN <<DigitChars[n + 1]>>
    ELSE str(n \div 10) \o <<DigitChars[(n % 10) + 1]>>

\* re.compile(pat): of the model's alphabet only "(" is a group opener, and
\* with no ")" to close it the pattern does not compile (re.error).
re_compile_ok(pat) == \A i \in 1..Len(pat) : pat[i] # "("

\* re.search(pat, s, re.IGNORECASE) for a pattern of literals and ".".
re_search(pat, s) ==
    \E k \in 0..(Len(s) - Len(pat)) :
        \A i \in 1..Len(pat) :
            pat[i] = "." \/ Lower(pat[i]) = Lower(s[k + i])

-----------------------------------------------------------------------------
(* pandas.                                                                 *)

None == [is_none |-> TRUE, columns |-> {}, rows |-> <<>>]

DataFrame(columns, rows) == [is_none |-> FALSE, columns |-> columns, rows |-> rows]

\* The list of the n values f[1], .., f[n].
list(f, n) == SubSeq(f, 1, n)

\* DataFrame.head(n): the first n rows; all but the last -n when n < 0.
head(s, n) ==
    IF n >= 0 THEN SubSeq(s, 1, Min(n, Len(s)))
    ELSE SubSeq(s, 1, Max(Len(s) + n, 0))

\* DataFrame.tail(n): the last n rows; all but the first -n when n < 0.
tail(s, n) ==
    IF n >= 0 THEN SubSeq(s, Len(s) - Min(n, Len(s)) + 1, Len(s))
    ELSE SubSeq(s, Min(-n, Len(s)) + 1, Len(s))

\* seq[:n] for n >= 0.
slice_to(s, n) == SubSeq(s, 1, Min(n, Len(s)))

\* sort_values with the sort left out: the rows in storage order.
sort_values_storage_order(s, col) == s

\* DataFrame.sort_values(col): ascending; rows of equal key keep their order.
\* rank[i] is the place of row i in the result, at[k] the row at place k.
sort_values(s, col) ==
    LET n == Len(s)
        rank == list([i \in 1..n |->
                    Cardinality({j \in 1..n :
                        \/ s[j][col] < s[i][col]
                        \/ (s[j][col] = s[i][col] /\ j < i)}) + 1], n)
        at == list([k \in 1..n |-> CHOOSE i \in 1..n : rank[i] = k], n)
    IN  list([k \in 1..n |-> s[at[k]]], n)

\* Series.unique(): the distinct values in order of first appearance.
RECURSIVE unique(_)
unique(s) ==
    IF s = <<>> THEN <<>>
    ELSE LET init == unique(SubSeq(s, 1, Len(s) - 1))
             last == s[Len(s)]
         IN  IF \E i \in 1..Len(init) : init[i] = last THEN init
             ELSE Append(init, last)

\* df[df[col] == value]
rows_equal(df, col, value) ==
    LET Test(r) == r[col] = value IN SelectSeq(df.rows, Test)

\* df[df[c1].str.contains(q, case=False, na=False)
\*    | df[c2].str.contains(q, case=False, na=False)]
rows_contains(df, c1, c2, q) ==
    LET Test(r) == re_search(q, r[c1]) \/ re_search(q, r[c2])
    IN  SelectSeq(df.rows, Test)

-----------------------------------------------------------------------------
(* Outcomes of a Python block: a returned value or a raised exception.     *)

Return(v) == [kind |-> "return", status |-> 200, value |-> v]

\* raise HTTPException(status_code=status)
RaiseHTTP(status) == [kind |-> "raise", status |-> status, value |-> <<>>]

\* KeyError, ValueError, re.error: anything that is not an HTTPException
\* reaches the client as 500 when nothing catches it.
RaiseError == [kind |-> "raise", status |-> 500, value |-> <<>>]

\* try: ... except Exception as e: raise HTTPException(status_code=500)
\* HTTPException is a subclass of Exception, so the handler catches it too.
except_Exception_500(outcome) ==
    IF outcome.kind = "raise" THEN RaiseHTTP(500) ELSE outcome

Response(op, args, outcome) ==
    [op |-> op, args |-> args, status |-> outcome.status, body |-> outcome.value]

NoResponse == [op |-> "none", args |-> <<>>, status |-> 0, body |-> <<>>]

-----------------------------------------------------------------------------
(* The helper and the record constructors of main.py.                      *)

\* row.get(col, '')
row_get(row, col) == IF col \in DOMAIN row THEN row[col] ELSE <<>>

\* get_company_name: the company table's name of the ticker, else the ticker.
get_company_name(ticker) ==
    IF ~company_info.is_none
    THEN LET company_data == rows_equal(company_info, "ticker", ticker)
         IN  IF company_data # <<>> THEN row_get(company_data[1], "company_name")
             ELSE ticker
    ELSE ticker

\* EconomicIndicator(id=str(row['id']), title=row['indicator_name_fr'], ...)
EconomicIndicator(row, country_col, source) ==
    [id |-> str(row.id), title |-> row.indicator_name_fr, source |-> source,
     country |-> row_get(row, country_col)]

\* ChartData(timestamp=row['timestamp'], ..., close=float(row['close_price']))
ChartData(row) == [timestamp |-> row.timestamp, close |-> row.close_price]

\* CompanyInfo(ticker=row['ticker'], company_name=row.get('company_name', ''))
CompanyInfo(row) ==
    [ticker |-> row.ticker, company_name |-> row_get(row, "company_name")]

\* [ChartData(...) for _, row in symbol_data.iterrows()]
chart_rows(rows) == list([i \in 1..Len(rows) |-> ChartData(rows[i])], Len(rows))

\* [CompanyInfo(...) for _, row in company_info.head(limit).iterrows()]
company_rows(rows) == list([i \in 1..Len(rows) |-> CompanyInfo(rows[i])], Len(rows))

\* [EconomicIndicator(...) for _, row in matches.iterrows()]
indicator_rows(rows, country_col, source) ==
    list([i \in 1..Len(rows) |-> EconomicIndicator(rows[i], country_col, source)],
         Len(rows))

-----------------------------------------------------------------------------
(* The request handlers, as the outcome of each function's body.           *)

\* One table's block of search_indicators: the matches of q in the name or
\* the country column, the first 10, as records.  A missing column raises
\* KeyError, a pattern that does not compile re.error.
indicator_block(df, country_col, source, q) ==
    IF df.is_none THEN Return(<<>>)
    ELSE IF "indicator_name_fr" \notin df.columns THEN RaiseError
    ELSE IF ~re_compile_ok(q) THEN RaiseError
    ELSE IF country_col \notin df.columns THEN RaiseError
    ELSE LET matches == head(rows_contains(df, "indicator_name_fr", country_col, q),
                             IndicatorHead)
         IN  Return(indicator_rows(matches, country_col, source))

search_indicators(q) ==
    LET imf == indicator_block(imf_data, "country", "IMF", q)
        wb == indicator_block(wb_data, "country_name", "World Bank", q)
        body == IF imf.kind = "raise" THEN imf
                ELSE IF wb.kind = "raise" THEN wb
                ELSE Return(imf.value \o wb.value)
        tried == except_Exception_500(body)
    IN  IF tried.kind = "raise" THEN tried
        ELSE Return(slice_to(tried.value, IndicatorCap))

get_financial_data(symbol) ==
    IF market_data.is_none THEN RaiseHTTP(404)
    ELSE LET symbol_data == rows_equal(market_data, "ticker", upper(symbol))
             body == IF symbol_data = <<>> THEN RaiseHTTP(404)
                     ELSE LET latest == symbol_data[Len(symbol_data)]   \* iloc[-1]
                          IN  Return([symbol |-> upper(symbol),
                                      name |-> get_company_name(upper(symbol)),
                                      price |-> latest.close_price])
         IN  except_Exception_500(body)

\* The lookback of a period; 0 stands for "no tail taken".
lookback(period) ==
    CASE period = "1W" -> Tail1W
      [] period = "1M" -> Tail1M
      [] period = "3M" -> Tail3M
      [] period = "1Y" -> Tail1Y
      [] OTHER -> 0

get_chart_data(symbol, period) ==
    IF market_data.is_none THEN RaiseHTTP(404)
    ELSE LET symbol_data == rows_equal(market_data, "ticker", upper(symbol))
             sorted == sort_values(symbol_data, "timestamp")
             kept == IF lookback(period) = 0 THEN sorted
                     ELSE tail(sorted, lookback(period))
             body == IF symbol_data = <<>> THEN RaiseHTTP(404)
                     ELSE Return(chart_rows(kept))
         IN  except_Exception_500(body)

get_companies(limit) ==
    IF company_info.is_none THEN RaiseHTTP(404)
    ELSE except_Exception_500(Return(company_rows(head(company_info.rows, limit))))

get_company(ticker) ==
    IF company_info.is_none THEN RaiseHTTP(404)
    ELSE LET company_data == rows_equal(company_info, "ticker", upper(ticker))
             body == IF company_data = <<>> THEN RaiseHTTP(404)
                     ELSE Return(CompanyInfo(company_data[1]))   \* iloc[0]
         IN  except_Exception_500(body)

\* One table's block of get_economic_indicator: "none" when the table is
\* absent or holds no such id (the code falls through to the next block).
economic_block(df, country_col, source, indicator_id) ==
    IF df.is_none THEN [kind |-> "none", status |-> 0, value |-> <<>>]
    ELSE IF ~int_ok(indicator_id) THEN RaiseError     \* int(): ValueError
    ELSE LET result == rows_equal(df, "id", int(indicator_id))
         IN  IF result # <<>>
             THEN Return(EconomicIndicator(result[1], country_col, source))
             ELSE [kind |-> "none", status |-> 0, value |-> <<>>]

get_economic_indicator(indicator_id) ==
    LET imf == economic_block(imf_data, "country", "IMF", indicator_id)
        wb == economic_block(wb_data, "country_name", "World Bank", indicator_id)
        body == IF imf.kind # "none" THEN imf
                ELSE IF wb.kind # "none" THEN wb
                ELSE RaiseHTTP(404)
    IN  except_Exception_500(body)

\* The company block of search_all.
search_companies(q) ==
    IF company_info.is_none THEN Return(<<>>)
    ELSE IF ~re_compile_ok(q) THEN RaiseError
    ELSE LET company_matches ==
                 head(rows_contains(company_info, "company_name", "ticker", q), SearchHead)
         IN  Return(list([i \in 1..Len(company_matches) |->
                             [ticker |-> company_matches[i].ticker,
                              name |-> row_get(company_matches[i], "company_name")]],
                         Len(company_matches)))

\* The market-symbol block of search_all.
search_symbols(q) ==
    IF market_data.is_none THEN Return(<<>>)
    ELSE IF ~re_compile_ok(q) THEN RaiseError
    ELSE LET hits == rows_contains(market_data, "ticker", "ticker", q)
             symbol_matches ==
                 slice_to(unique(list([i \in 1..Len(hits) |-> hits[i].ticker], Len(hits))),
                          SearchHead)
         IN  Return(list([i \in 1..Len(symbol_matches) |->
                             [symbol |-> symbol_matches[i],
                              name |-> get_company_name(symbol_matches[i])]],
                         Len(symbol_matches)))

\* search_all with no except clause: an exception of a block reaches the
\* caller.
search_all_uncaught(q) ==
    LET indicators_response == search_indicators(q)
        companies == search_companies(q)
        symbols == search_symbols(q)
    IN  IF indicators_response.kind = "raise" THEN indicators_response
        ELSE IF companies.kind = "raise" THEN companies
        ELSE IF symbols.kind = "raise" THEN symbols
        ELSE Return([indicators |-> slice_to(indicators_response.value, SearchHead),
                     companies |-> companies.value,
                     symbols |-> symbols.value])

\* search_all: the three blocks run in one try; the first exception ends the
\* try and the results filled so far are returned.
search_all(q) ==
    LET indicators_response == search_indicators(q)
        companies == search_companies(q)
        symbols == search_symbols(q)
        results == [indicators |-> <<>>, companies |-> <<>>, symbols |-> <<>>]
    IN  IF indicators_response.kind = "raise" THEN Return(results)
        ELSE LET r1 == [results EXCEPT
                           !.indicators = slice_to(indicators_response.value, SearchHead)]
             IN  IF companies.kind = "raise" THEN Return(r1)
                 ELSE LET r2 == [r1 EXCEPT !.companies = companies.value]
                      IN  IF symbols.kind = "raise" THEN Return(r2)
                          ELSE Return([r2 EXCEPT !.symbols = symbols.value])

-----------------------------------------------------------------------------
(* The working directory.  A file is absent, or pandas.read_csv raises on  *)
(* it (a parser or decoding error), or it parses to columns and rows.      *)

Absent == [kind |-> "absent", columns |-> {}, rows |-> <<>>]
Malformed == [kind |-> "malformed", columns |-> {}, rows |-> <<>>]
Csv(columns, rows) == [kind |-> "csv", columns |-> columns, rows |-> rows]

\* The i-th ticker: A, B, AA, AB, BA, BB, AAA, ...
RECURSIVE TickerOf(_)
TickerOf(i) ==
    IF i = 0 THEN <<>>
    ELSE Append(TickerOf((i - 1) \div 2), IF (i - 1) % 2 = 0 THEN "A" ELSE "B")

IndicatorNames == << <<"P", "i", "b">>, <<"I", "p", "c">> >>
Countries == << <<"F", "r">>, <<"U", ".", "S">>, <<"B">> >>
CompanyNames == << <<"I", "n", "c">>, <<"B", "a", "n", "k">> >>

\* n rows of the IMF file: ids 1..n.
ImfRows(n) ==
    list([i \in 1..n |-> [id |-> i,
                          indicator_name_fr |-> IndicatorNames[(i % 2) + 1],
                          country |-> Countries[(i % 3) + 1]]], n)

\* n rows of the World Bank file: ids 2, 4, .., 2n, so that an id is in the
\* IMF file alone (odd), in both files, or in the World Bank file alone.
WbRows(n) ==
    list([i \in 1..n |-> [id |-> 2 * i,
                          indicator_name_fr |-> IndicatorNames[((i + 1) % 2) + 1],
                          country_name |-> Countries[((i + 1) % 3) + 1]]], n)

\* An IMF file written with the World Bank file's header.
ImfRowsWbHeader(n) ==
    list([i \in 1..n |-> [id |-> i,
                          indicator_name_fr |-> IndicatorNames[(i % 2) + 1],
                          country_name |-> Countries[(i % 3) + 1]]], n)

CompanyRows(n) ==
    list([i \in 1..n |-> [ticker |-> TickerOf(i),
                          company_name |-> CompanyNames[(i % 2) + 1]]], n)

\* The timestamp of the j-th stored observation of n: stored ascending,
\* descending, or rotated (the newest in the middle of the file).
TimestampAt(order, j, n) ==
    CASE order = "asc" -> j
      [] order = "desc" -> n + 1 - j
      [] OTHER -> ((j + (n \div 2) - 1) % n) + 1

\* k tickers with n observations each, stored observation by observation.
\* (ticker, timestamp) is a key of the market table.
\* The close price names its row: 1000 * ticker + timestamp.
MarketRows(k, n, order) ==
    list([x \in 1..(k * n) |->
            LET t == ((x - 1) % k) + 1
                j == ((x - 1) \div k) + 1
            IN  [ticker |-> TickerOf(t),
                 timestamp |-> TimestampAt(order, j, n),
                 close_price |-> 1000 * t + TimestampAt(order, j, n)]], k * n)

ImfColumns == {"id", "indicator_name_fr", "country"}
WbColumns == {"id", "indicator_name_fr", "country_name"}
MarketColumns == {"ticker", "timestamp", "close_price"}
CompanyColumns == {"ticker", "company_name"}

Orders == {"asc", "desc", "rotated"}

ImfFiles ==
    {Absent, Malformed, Csv(WbColumns, ImfRowsWbHeader(2))}
        \cup {Csv(ImfColumns, ImfRows(n)) : n \in {0, MaxIndicators}}

WbFiles == {Absent, Malformed, Csv(WbColumns, WbRows(MaxIndicators))}

MarketFiles ==
    {Absent, Malformed, Csv(MarketColumns, MarketRows(MaxTickers, 1, "asc"))}
        \cup {Csv(MarketColumns, MarketRows(2, MaxSeries, o)) : o \in {"asc", "rotated"}}

CompanyFiles ==
    {Absent, Malformed} \cup {Csv(CompanyColumns, CompanyRows(n)) : n \in {2, MaxCompanies}}

-----------------------------------------------------------------------------
(* Startup.                                                                *)

\* pd.read_csv(file)
read_csv(file) == DataFrame(file.columns, file.rows)

\* load_csv_data: the four loads run in one try block, in this order; the
\* first read_csv that raises ends the block, and the slots not yet
\* assigned keep their value.
load_csv_data ==
    LET imf_raises == fs.imf.kind = "malformed"
        wb_raises == ~imf_raises /\ fs.wb.kind = "malformed"
        market_raises == ~imf_raises /\ ~wb_raises /\ fs.market.kind = "malformed"
        wb_reached == ~imf_raises
        market_reached == wb_reached /\ ~wb_raises
        company_reached == market_reached /\ ~market_raises
    IN  [imf |-> IF fs.imf.kind = "csv" THEN read_csv(fs.imf) ELSE imf_data,
         wb |-> IF wb_reached /\ fs.wb.kind = "csv" THEN read_csv(fs.wb) ELSE wb_data,
         market |-> IF market_reached /\ fs.market.kind = "csv"
                    THEN read_csv(fs.market) ELSE market_data,
         company |-> IF company_reached /\ fs.company.kind = "csv"
                     THEN read_csv(fs.company) ELSE company_info]

Init ==
    /\ fs \in [imf : ImfFiles, wb : WbFiles, market : MarketFiles, company : CompanyFiles]
    /\ imf_data = None
    /\ wb_data = None
    /\ market_data = None
    /\ company_info = None
    /\ phase = "startup"
    /\ resp = NoResponse

\* @app.on_event("startup"): requests are served once it has returned.
startup_event ==
    /\ phase = "startup"
    /\ imf_data' = load_csv_data.imf
    /\ wb_data' = load_csv_data.wb
    /\ market_data' = load_csv_data.market
    /\ company_info' = load_csv_data.company
    /\ phase' = "serving"
    /\ UNCHANGED <<fs, resp>>

-----------------------------------------------------------------------------
(* The requests.                                                           *)

Queries == {<<>>, <<"p">>, <<"b">>, <<"I", "N">>, <<".">>, <<"(">>, <<"z">>}
Symbols == {<<"a">>, <<"B">>, <<"a", "b">>, <<"z">>}
Periods == {"1W", "1M", "3M", "1Y", "MAX"}
Limits == (0 - MaxLimit)..MaxLimit
IndicatorIds == {<<"1">>, <<"2">>, <<"0", "2">>, <<"2", "2">>, <<"9", "9">>, <<"x">>}

GET_indicators ==
    /\ phase = "serving"
    /\ \E q \in Queries :
        resp' = Response("indicators", [q |-> q], search_indicators(q))
    /\ UNCHANGED <<fs, imf_data, wb_data, market_data, company_info, phase>>

GET_financial ==
    /\ phase = "serving"
    /\ \E symbol \in Symbols :
        resp' = Response("financial", [symbol |-> symbol], get_financial_data(symbol))
    /\ UNCHANGED <<fs, imf_data, wb_data, market_data, company_info, phase>>

\* GET_chart with the sorted rows of the ticker stored back as the market
\* table.
GET_chart_sorting_in_place ==
    /\ phase = "serving"
    /\ \E symbol \in Symbols, period \in Periods :
        /\ resp' = Response("chart", [symbol |-> symbol, period |-> period],
                            get_chart_data(symbol, period))
        /\ market_data' =
               IF market_data.is_none THEN market_data
               ELSE [market_data EXCEPT !.rows = sort_values(@, "timestamp")]
    /\ UNCHANGED <<fs, imf_data, wb_data, company_info, phase>>

GET_chart ==
    /\ phase = "serving"
    /\ \E symbol \in Symbols, period \in Periods :
        resp' = Response("chart", [symbol |-> symbol, period |-> period],
                         get_chart_data(symbol, period))
    /\ UNCHANGED <<fs, imf_data, wb_data, market_data, company_info, phase>>

GET_companies ==
    /\ phase = "serving"
    /\ \E limit \in Limits :
        resp' = Response("companies", [limit |-> limit], get_companies(limit))
    /\ UNCHANGED <<fs, imf_data, wb_data, market_data, company_info, phase>>

GET_company ==
    /\ phase = "serving"
    /\ \E ticker \in Symbols :
        resp' = Response("company", [ticker |-> ticker], get_company(ticker))
    /\ UNCHANGED <<fs, imf_data, wb_data, market_data, company_info, phase>>

GET_economic ==
    /\ phase = "serving"
    /\ \E indicator_id \in IndicatorIds :
        resp' = Response("economic", [indicator_id |-> indicator_id],
                         get_economic_indicator(indicator_id))
    /\ UNCHANGED <<fs, imf_data, wb_data, market_data, company_info, phase>>

GET_search ==
    /\ phase = "serving"
    /\ \E q \in Queries :
        resp' = Response("search", [q |-> q], search_all(q))
    /\ UNCHANGED <<fs, imf_data, wb_data, market_data, company_info, phase>>

Next ==
    \/ startup_event
    \/ GET_indicators
    \/ GET_financial
    \/ GET_chart
    \/ GET_companies
    \/ GET_company
    \/ GET_economic
    \/ GET_search

Spec == Init /\ [][Next]_vars

-----------------------------------------------------------------------------
(* get_chart_data on long series: one request on a market file whose       *)
(* series are as long as each lookback, one shorter and longer.            *)

Lookbacks == {Tail1W, Tail1M, Tail3M, Tail1Y}

ChartLens == {1, 2} \cup {n + d : n \in Lookbacks, d \in (0 - 1)..ExtraRows}

ChartFiles ==
    {Csv(MarketColumns, MarketRows(k, n, o)) : k \in 1..2, n \in ChartLens, o \in Orders}

InitChart ==
    /\ fs \in [imf : {Absent}, wb : {Absent}, market : ChartFiles, company : {Absent}]
    /\ imf_data = None
    /\ wb_data = None
    /\ market_data = None
    /\ company_info = None
    /\ phase = "startup"
    /\ resp = NoResponse

FirstChart == resp = NoResponse /\ GET_chart

NextChart == startup_event \/ FirstChart

SpecChart == InitChart /\ [][NextChart]_vars

-----------------------------------------------------------------------------
(* Claims.                                                                 *)

\* The market rows of the ticker a request names, in storage order.
SeriesOf(symbol) ==
    IF market_data.is_none THEN <<>>
    ELSE rows_equal(market_data, "ticker", upper(symbol))

\* C3: for a ticker with at least one market row, get_chart_data answers
\* 200 with points ascending by timestamp that are the newest
\* min(N, length) observations of the ticker (N = 7, 30, 90, 365 for 1W, 1M,
\* 3M, 1Y), each with its row's close price, and with all the ticker's
\* observations for any other period.
C3_ChartIsSortedSuffix ==
    (resp.op = "chart" /\ SeriesOf(resp.args.symbol) # <<>>) =>
        LET series == SeriesOf(resp.args.symbol)
            body == resp.body
            n == lookback(resp.args.period)
            all == {series[i].timestamp : i \in 1..Len(series)}
            got == {body[i].timestamp : i \in 1..Len(body)}
        IN  /\ resp.status = 200
            /\ Len(body) = IF resp.args.period \in {"1W", "1M", "3M", "1Y"}
                           THEN Min(n, Len(series)) ELSE Len(series)
            /\ resp.args.period = "1M" => Len(body) <= 30
            /\ \A i \in 1..(Len(body) - 1) : body[i].timestamp < body[i + 1].timestamp
            /\ got \subseteq all
            /\ \A t \in all \ got : \A u \in got : t < u
            /\ \A i \in 1..Len(body) : \E j \in 1..Len(series) :
                   /\ series[j].timestamp = body[i].timestamp
                   /\ series[j].close_price = body[i].close

\* C3 witness: a 1Y chart cut to 365 points of a longer series that is not
\* stored in ascending order.
C3_Witness ==
    /\ resp.op = "chart"
    /\ resp.status = 200
    /\ resp.args.period = "1Y"
    /\ Len(resp.body) = Tail1Y
    /\ Len(SeriesOf(resp.args.symbol)) > Tail1Y
    /\ SeriesOf(resp.args.symbol)[1].timestamp > SeriesOf(resp.args.symbol)[2].timestamp

-----------------------------------------------------------------------------
(* Vocabulary of the remaining claims.                                     *)

\* The company rows of the ticker a request names.
CompanyOf(ticker) ==
    IF company_info.is_none THEN <<>>
    ELSE rows_equal(company_info, "ticker", upper(ticker))

\* s contains q, compared without case: a substring, no pattern.
ContainsIgnoreCase(q, s) ==
    \E k \in 0..(Len(s) - Len(q)) :
        \A i \in 1..Len(q) : Lower(q[i]) = Lower(s[k + i])

\* The first 10 rows of an indicator table whose name or country contains
\* q, as records; nothing for an absent table.
FirstMatches(df, country_col, source, q) ==
    IF df.is_none THEN <<>>
    ELSE LET Test(r) == \/ ContainsIgnoreCase(q, r.indicator_name_fr)
                        \/ ContainsIgnoreCase(q, r[country_col])
         IN  indicator_rows(head(SelectSeq(df.rows, Test), 10), country_col, source)

\* The table is absent or has the columns of its data model.
HasColumns(df, columns) == df.is_none \/ columns \subseteq df.columns

\* The rows of an indicator table with the id a string denotes.
RowsWithId(df, indicator_id) ==
    IF df.is_none \/ ~int_ok(indicator_id) THEN <<>>
    ELSE rows_equal(df, "id", int(indicator_id))

\* What a block of search_all yields on its own: its matches, nothing if it
\* raises.
OnItsOwn(outcome) == IF outcome.kind = "return" THEN outcome.value ELSE <<>>

\* C1: a lookup by ticker whose table is absent, or holds no row of the
\* upper-cased ticker, is answered 404.
C1_MissIsNotFound ==
    /\ (resp.op \in {"financial", "chart"} /\ SeriesOf(resp.args.symbol) = <<>>)
           => resp.status = 404
    /\ (resp.op = "company" /\ CompanyOf(resp.args.ticker) = <<>>)
           => resp.status = 404

\* C2: for a ticker with at least one market row, get_financial_data
\* answers the upper-cased symbol and the close price of the ticker's row
\* of greatest timestamp, whatever the storage order.
C2_PriceIsLatestClose ==
    (resp.op = "financial" /\ SeriesOf(resp.args.symbol) # <<>>) =>
        LET series == SeriesOf(resp.args.symbol)
        IN  /\ resp.status = 200
            /\ resp.body.symbol = upper(resp.args.symbol)
            /\ \E j \in 1..Len(series) :
                   /\ series[j].close_price = resp.body.price
                   /\ \A i \in 1..Len(series) :
                          series[i].timestamp <= series[j].timestamp

\* C4: get_economic_indicator answers the IMF row of the id if the IMF
\* table holds it, else the World Bank row of the id, and 404 when neither
\* does, when both tables are absent or when the id is no integer.
C4_IndicatorByIdOr404 ==
    (resp.op = "economic") =>
        LET imf_rows == RowsWithId(imf_data, resp.args.indicator_id)
            wb_rows == RowsWithId(wb_data, resp.args.indicator_id)
        IN  IF imf_rows # <<>>
            THEN /\ resp.status = 200
                 /\ resp.body = EconomicIndicator(imf_rows[1], "country", "IMF")
            ELSE IF wb_rows # <<>>
            THEN /\ resp.status = 200
                 /\ resp.body = EconomicIndicator(wb_rows[1], "country_name", "World Bank")
            ELSE resp.status = 404

\* C5: search_all answers, for each of its three blocks, what the block
\* yields on its own; a block that raises takes nothing from the others.
C5_BlocksIndependent ==
    (resp.op = "search") =>
        /\ resp.status = 200
        /\ resp.body.indicators
               = slice_to(OnItsOwn(search_indicators(resp.args.q)), SearchHead)
        /\ resp.body.companies = OnItsOwn(search_companies(resp.args.q))
        /\ resp.body.symbols = OnItsOwn(search_symbols(resp.args.q))

\* C6: after load_csv_data every file that parses has its slot populated
\* and every other slot is empty, whichever file failed to parse.
C6_LoadIsPerFile ==
    (phase = "serving") =>
        /\ imf_data = IF fs.imf.kind = "csv" THEN read_csv(fs.imf) ELSE None
        /\ wb_data = IF fs.wb.kind = "csv" THEN read_csv(fs.wb) ELSE None
        /\ market_data = IF fs.market.kind = "csv" THEN read_csv(fs.market) ELSE None
        /\ company_info = IF fs.company.kind = "csv" THEN read_csv(fs.company) ELSE None

\* C7: over tables that are absent or have their data model's columns,
\* search_indicators answers 200 with the first 10 IMF rows whose name or
\* country contains q without regard to case, then the first 10 such World
\* Bank rows, at most 20 records, for every q.
C7_SearchIsSubstringMatch ==
    (/\ resp.op = "indicators"
     /\ HasColumns(imf_data, ImfColumns)
     /\ HasColumns(wb_data, WbColumns)) =>
        /\ resp.status = 200
        /\ Len(resp.body) <= 20
        /\ resp.body = FirstMatches(imf_data, "country", "IMF", resp.args.q)
                        \o FirstMatches(wb_data, "country_name", "World Bank", resp.args.q)

\* C8: search_all never fails: it answers 200 with at most 5 indicators, at
\* most 5 companies and at most 5 symbols of distinct tickers, and with
\* three empty sequences when every table is absent.
C8_SearchAllNeverFails ==
    (resp.op = "search") =>
        /\ resp.status = 200
        /\ DOMAIN resp.body = {"indicators", "companies", "symbols"}
        /\ Len(resp.body.indicators) <= 5
        /\ Len(resp.body.companies) <= 5
        /\ Len(resp.body.symbols) <= 5
        /\ \A i, j \in 1..Len(resp.body.symbols) :
               resp.body.symbols[i].symbol = resp.body.symbols[j].symbol => i = j
        /\ (imf_data.is_none /\ wb_data.is_none /\ market_data.is_none
                /\ company_info.is_none)
               => resp.body = [indicators |-> <<>>, companies |-> <<>>, symbols |-> <<>>]

\* C8 witness: a search whose indicator block raised, answered 200 all the
\* same; and a search that cut each of its three sequences to 5.
C8_Witness ==
    /\ resp.op = "search"
    /\ resp.status = 200
    /\ \/ search_indicators(resp.args.q).kind = "raise"
       \/ /\ Len(resp.body.indicators) = 5
          /\ Len(resp.body.companies) = 5
          /\ Len(resp.body.symbols) = 5
          /\ Len(OnItsOwn(search_indicators(resp.args.q))) > 5
          /\ Len(company_info.rows) > 5

\* C9: for every limit, zero and negative ones included, get_companies
\* answers the first limit rows of the company table in storage order: a
\* prefix of never more than limit records, none for a limit of 0 or less.
C9_AtMostLimitRecords ==
    (resp.op = "companies" /\ ~company_info.is_none) =>
        /\ resp.status = 200
        /\ Len(resp.body) <= Max(resp.args.limit, 0)
        /\ resp.body = company_rows(SubSeq(company_info.rows, 1, Len(resp.body)))

\* C10: once startup has run no step writes a table slot or runs the load
\* again, and a request repeated is answered as before.
C10_RequestsLeaveTables ==
    [][(phase = "serving") =>
          /\ imf_data' = imf_data
          /\ wb_data' = wb_data
          /\ market_data' = market_data
          /\ company_info' = company_info
          /\ phase' = "serving"
          /\ (resp'.op = resp.op /\ resp'.args = resp.args) => resp' = resp]_vars

\* C10 witness: a chart request served from a market table that is not
\* stored in timestamp order.
C10_Witness ==
    /\ phase = "serving"
    /\ resp.op = "chart"
    /\ resp.status = 200
    /\ ~market_data.is_none
    /\ \E i, j \in 1..Len(market_data.rows) :
           /\ i < j
           /\ market_data.rows[i].ticker = market_data.rows[j].ticker
           /\ market_data.rows[i].timestamp > market_data.rows[j].timestamp

====
